---- MODULE Spec2Model ----
(***************************************************************************)
(* A model of sample-tool: the scorer (core.process_file and its three     *)
(* scoring functions), the batch runner (core.process_files) and the front *)
(* end (cli.main, cli._get_files_to_process).                              *)
(*                                                                         *)
(* Scores are Python floats.  They are modelled as reduced fractions       *)
(* <<num, den>>: every score the program computes is count / divisor with  *)
(* a divisor of 1024, 100 or 500 and a small count, so two scores are the  *)
(* same float exactly when they are the same fraction.                     *)
(***************************************************************************)
EXTENDS Integers, Sequences, FiniteSets, TLC

\* Longest list of paths handed to the tool.
MaxFiles == 3

----------------------------------------------------------------------------
(* The environment: a file system and the inputs drawn from it.            *)

\* What a path refers to.  lines and words are what Python's text reader
\* yields for a file that decodes as UTF-8; they mean nothing otherwise.
NoEntry == [exists |-> FALSE, is_file |-> FALSE, readable |-> FALSE,
            st_size |-> 0, utf8 |-> FALSE, lines |-> 0, words |-> 0]

Directory == [exists |-> TRUE, is_file |-> FALSE, readable |-> TRUE,
              st_size |-> 0, utf8 |-> FALSE, lines |-> 0, words |-> 0]

RegularFile(size, readable, utf8, lines, words) ==
    [exists |-> TRUE, is_file |-> TRUE, readable |-> readable,
     st_size |-> size, utf8 |-> utf8, lines |-> lines, words |-> words]

Paths == {"missing.txt", "dir", "empty.txt", "small.txt", "big.txt",
          "binary.bin", "locked.txt"}

FileSystem ==
    [p \in Paths |->
        CASE p = "missing.txt" -> NoEntry
          [] p = "dir"         -> Directory
          [] p = "empty.txt"   -> RegularFile(0, TRUE, TRUE, 0, 0)
          [] p = "small.txt"   -> RegularFile(64, TRUE, TRUE, 3, 12)
          [] p = "big.txt"     -> RegularFile(1025, TRUE, TRUE, 101, 501)
          [] p = "binary.bin"  -> RegularFile(4, TRUE, FALSE, 0, 0)
          [] p = "locked.txt"  -> RegularFile(512, FALSE, TRUE, 50, 500)]

\* The algorithm names the scorer recognises, and one it does not.
Algorithms == {"size", "lines", "words"}
AlgorithmArgs == Algorithms \cup {"invalid"}

\* All lists of at most n paths.
RECURSIVE ListsUpTo(_)
ListsUpTo(n) ==
    IF n = 0 THEN {<<>>}
    ELSE LET shorter == ListsUpTo(n - 1)
         IN  shorter \cup {Append(l, p) : l \in {s \in shorter : Len(s) = n - 1},
                                          p \in Paths}

\* Lines of standard input: sequences of tokens, a token being white space
\* or the text of a path.
Whitespace == {" ", "\n"}
StdinSamples ==
    { <<>>,
      << <<"\n">>, <<" ", "\n">> >>,
      << <<"small.txt", "\n">>, <<"\n">>, <<" ", "missing.txt", " ", "\n">> >>,
      << <<"big.txt", "\n">>, <<"binary.bin">> >> }

----------------------------------------------------------------------------
(* Floats as fractions.                                                    *)

RECURSIVE GCD(_, _)
GCD(a, b) == IF b = 0 THEN a ELSE GCD(b, a % b)

\* count / divisor, the Python true division of a count by a float constant.
Div(n, d) == LET g == GCD(n, d) IN <<n \div g, d \div g>>

One == <<1, 1>>
Zero == <<0, 1>>

Less(x, y) == x[1] * y[2] < y[1] * x[2]
LessEq(x, y) == x[1] * y[2] <= y[1] * x[2]

\* min(1.0, x): Python's min returns its first argument unless a later one
\* is smaller.
Min1(x) == IF Less(x, One) THEN x ELSE One

\* f"{score:.3f}": the score in thousandths, ties rounded to even.
Format3(x) ==
    LET q == (1000 * x[1]) \div x[2]
        r == (1000 * x[1]) % x[2]
    IN  IF 2 * r > x[2] THEN q + 1
        ELSE IF 2 * r = x[2] THEN q + (q % 2)
        ELSE q

----------------------------------------------------------------------------
(* The scorer: core.process_file and the scoring functions.                *)

SizeDivisor == 1024
LinesDivisor == 100
WordsDivisor == 500

\* The attributes of pathlib.Path that the scorer looks up and that exist.
\* pathlib.Path has no attribute is_readable.
PathAttributes == {"exists", "is_file", "stat"}

\* What a call produces: a returned score, or a raised exception.  io lists
\* the reads of the file's metadata and content the call made.
Return(score, io) == [kind |-> "ok", msg |-> "", score |-> score, io |-> io]
Raise(kind, msg, io) == [kind |-> kind, msg |-> msg, score |-> Zero, io |-> io]

score_by_size(path) ==
    Return(Min1(Div(path.st_size, SizeDivisor)), <<"stat">>)

score_by_lines(path) ==
    IF ~path.readable THEN Raise("PermissionError", "Permission denied", <<"open">>)
    ELSE IF path.utf8 THEN Return(Min1(Div(path.lines, LinesDivisor)), <<"open">>)
    ELSE LET s == score_by_size(path)
         IN  [s EXCEPT !.io = <<"open">> \o s.io]

score_by_words(path) ==
    IF ~path.readable THEN Raise("PermissionError", "Permission denied", <<"open">>)
    ELSE IF path.utf8 THEN Return(Min1(Div(path.words, WordsDivisor)), <<"open">>)
    ELSE LET s == score_by_size(path)
         IN  [s EXCEPT !.io = <<"open">> \o s.io]

\* A scorer that looks at the algorithm before it looks at the path.
process_file_dispatch_first(file_path, algorithm) ==
    LET path == FileSystem[file_path]
    IN  IF algorithm \notin Algorithms
        THEN Raise("ValueError", "Unsupported algorithm", <<>>)
        ELSE IF ~path.exists THEN Raise("FileNotFoundError", "File not found", <<>>)
        ELSE IF ~path.is_file THEN Raise("ValueError", "Not a file", <<>>)
        ELSE Raise("AttributeError", "is_readable", <<>>)

process_file(file_path, algorithm) ==
    LET path == FileSystem[file_path]
    IN  IF ~path.exists THEN Raise("FileNotFoundError", "File not found", <<>>)
        ELSE IF ~path.is_file THEN Raise("ValueError", "Not a file", <<>>)
        ELSE IF "is_readable" \notin PathAttributes
        THEN Raise("AttributeError", "is_readable", <<>>)
        ELSE IF ~path.readable
        THEN Raise("PermissionError", "Cannot read file", <<>>)
        ELSE IF algorithm = "size" THEN score_by_size(path)
        ELSE IF algorithm = "lines" THEN score_by_lines(path)
        ELSE IF algorithm = "words" THEN score_by_words(path)
        ELSE Raise("ValueError", "Unsupported algorithm", <<>>)

----------------------------------------------------------------------------
(* The state.                                                              *)

VARIABLES
    caller,        \* "cli": cli.main runs; "api": process_files is called directly
    args_files,    \* the positional arguments, or the list handed to process_files
    stdin_isatty,  \* whether standard input is an interactive terminal
    stdin_lines,   \* the lines of standard input
    quiet, verbose, algorithm,
    pc,            \* "start", "process_files", "returned", "raised", "exited"
    files,         \* the list process_files iterates over
    i,             \* the position the loop of process_files is at
    results,       \* the local list of process_files
    outcomes,      \* what each call of process_file so far produced
    trace,         \* everything written to the two streams, and each call of
                   \* process_file, in the order it happened
    returned,      \* <<>>, or <<l>> once process_files has returned the list l
    raised,        \* "", or the exception that left process_files
    exitcode       \* <<>>, or <<c>> once the process has exited with code c

vars == <<caller, args_files, stdin_isatty, stdin_lines, quiet, verbose,
          algorithm, pc, files, i, results, outcomes, trace, returned, raised,
          exitcode>>

inputs == <<caller, args_files, stdin_isatty, stdin_lines, quiet, verbose,
            algorithm>>

Stdout(kind, path, text) ==
    [stream |-> "stdout", kind |-> kind, path |-> path, text |-> text]
Stderr(kind, path, text) ==
    [stream |-> "stderr", kind |-> kind, path |-> path, text |-> text]
Call(path) ==
    [stream |-> "call", kind |-> "process_file", path |-> path, text |-> <<>>]

----------------------------------------------------------------------------
(* The batch runner: core.process_files.                                   *)

\* Python's exception classes that derive from Exception.
ExceptionClasses == {"FileNotFoundError", "PermissionError", "ValueError",
                     "AttributeError", "UnicodeDecodeError", "OSError"}

\* An except chain without the catch-all clause.
ExceptClauseNoCatchAll(kind) ==
    IF kind \in {"FileNotFoundError", "PermissionError", "ValueError"}
    THEN "Error processing"
    ELSE "propagate"

\* The except clause that handles an exception raised in the loop body.
ExceptClause(kind) ==
    IF kind \in {"FileNotFoundError", "PermissionError", "ValueError"}
    THEN "Error processing"
    ELSE IF kind \in ExceptionClasses
    THEN "Unexpected error processing"
    ELSE "propagate"

ProgressNotice(q, v, file_path) ==
    IF v /\ ~q THEN <<Stderr("Processing", file_path, <<>>)>> ELSE <<>>

ResultLine(q, file_path, score) ==
    IF ~q THEN <<Stdout("result", file_path, <<Format3(score)>>)>> ELSE <<>>

\* An error notice printed whatever quiet says.
ErrorNoticeLoud(q, clause, file_path, e) ==
    IF clause = "propagate" THEN <<>>
    ELSE <<Stderr(clause, file_path, <<e.kind, e.msg>>)>>

\* An error notice printed for the expected exceptions only.
ErrorNoticeKnownOnly(q, clause, file_path, e) ==
    IF ~q /\ clause = "Error processing"
    THEN <<Stderr(clause, file_path, <<e.kind, e.msg>>)>>
    ELSE <<>>

ErrorNotice(q, clause, file_path, e) ==
    IF ~q /\ clause # "propagate"
    THEN <<Stderr(clause, file_path, <<e.kind, e.msg>>)>>
    ELSE <<>>

\* process_files is called directly.
CallProcessFiles ==
    /\ pc = "start"
    /\ caller = "api"
    /\ files' = args_files
    /\ results' = <<>>
    /\ i' = 1
    /\ pc' = "process_files"
    /\ UNCHANGED <<inputs, outcomes, trace, returned, raised, exitcode>>

\* One iteration of the loop of process_files.
ProcessFilesStep ==
    /\ pc = "process_files"
    /\ i <= Len(files)
    /\ LET file_path == files[i]
           r == process_file(file_path, algorithm)
           clause == ExceptClause(r.kind)
       IN  /\ outcomes' = Append(outcomes, [path |-> file_path, kind |-> r.kind,
                                             msg |-> r.msg, score |-> r.score,
                                             io |-> r.io])
           /\ IF r.kind = "ok"
              THEN /\ results' = Append(results, <<file_path, r.score>>)
                   /\ trace' = trace \o ProgressNotice(quiet, verbose, file_path)
                                     \o <<Call(file_path)>>
                                     \o ResultLine(quiet, file_path, r.score)
                   /\ i' = i + 1
                   /\ UNCHANGED <<pc, raised>>
              ELSE /\ results' = results
                   /\ trace' = trace \o ProgressNotice(quiet, verbose, file_path)
                                     \o <<Call(file_path)>>
                                     \o ErrorNotice(quiet, clause, file_path, r)
                   /\ IF clause = "propagate"
                      THEN /\ pc' = "raised"
                           /\ raised' = r.kind
                           /\ i' = i
                      ELSE /\ i' = i + 1
                           /\ UNCHANGED <<pc, raised>>
    /\ UNCHANGED <<inputs, files, returned, exitcode>>

\* The loop is over: process_files returns its list.
ProcessFilesReturn ==
    /\ pc = "process_files"
    /\ i > Len(files)
    /\ returned' = <<results>>
    /\ pc' = "returned"
    /\ UNCHANGED <<inputs, files, i, results, outcomes, trace, raised, exitcode>>

----------------------------------------------------------------------------
(* The front end: cli.main and cli._get_files_to_process.                  *)

\* str.strip(): the line without its leading and trailing white space.
RECURSIVE StripLeft(_)
StripLeft(line) ==
    IF line # <<>> /\ Head(line) \in Whitespace THEN StripLeft(Tail(line)) ELSE line

RECURSIVE StripRight(_)
StripRight(line) ==
    IF line # <<>> /\ line[Len(line)] \in Whitespace
    THEN StripRight(SubSeq(line, 1, Len(line) - 1))
    ELSE line

Strip(line) == StripRight(StripLeft(line))

\* [line.strip() for line in sys.stdin if line.strip()].  The lines drawn
\* hold at most one path, so the stripped line is its first token.
RECURSIVE StrippedLines(_)
StrippedLines(lines) ==
    IF lines = <<>> THEN <<>>
    ELSE LET t == Strip(Head(lines))
         IN  (IF t # <<>> THEN <<t[1]>> ELSE <<>>) \o StrippedLines(Tail(lines))

get_files_to_process(argfiles, isatty, lines) ==
    IF argfiles # <<>> THEN argfiles
    ELSE IF ~isatty THEN StrippedLines(lines)
    ELSE <<>>

\* The exit code main picks once process_files has returned.
ExitCode(q, fs, rs) ==
    IF q THEN (IF rs # <<>> THEN 0 ELSE 1)
    ELSE (IF Len(rs) = Len(fs) THEN 0 ELSE 1)

\* main up to the call of process_files.
Main ==
    /\ pc = "start"
    /\ caller = "cli"
    /\ LET fs == get_files_to_process(args_files, stdin_isatty, stdin_lines)
       IN  /\ files' = fs
           /\ IF fs = <<>>
              THEN /\ trace' = trace \o (IF ~quiet
                                         THEN <<Stderr("No files to process", "", <<>>)>>
                                         ELSE <<>>)
                   /\ exitcode' = <<1>>
                   /\ pc' = "exited"
              ELSE /\ pc' = "process_files"
                   /\ UNCHANGED <<trace, exitcode>>
    /\ results' = <<>>
    /\ i' = 1
    /\ UNCHANGED <<inputs, outcomes, returned, raised>>

\* main after process_files has returned.
MainExit ==
    /\ pc = "returned"
    /\ caller = "cli"
    /\ exitcode' = <<ExitCode(quiet, files, returned[1])>>
    /\ pc' = "exited"
    /\ UNCHANGED <<inputs, files, i, results, outcomes, trace, returned, raised>>

\* The user interrupts the run: KeyboardInterrupt is raised in process_files,
\* between two iterations of its loop.
Interrupt ==
    /\ pc = "process_files"
    /\ ExceptClause("KeyboardInterrupt") = "propagate"
    /\ raised' = "KeyboardInterrupt"
    /\ pc' = "raised"
    /\ UNCHANGED <<inputs, files, i, results, outcomes, trace, returned, exitcode>>

\* The except clauses of main, for an exception that left process_files.
MainExcept ==
    /\ pc = "raised"
    /\ caller = "cli"
    /\ IF raised = "KeyboardInterrupt"
       THEN /\ trace' = trace \o (IF ~quiet
                                  THEN <<Stderr("Interrupted by user", "", <<>>)>>
                                  ELSE <<>>)
            /\ exitcode' = <<130>>
       ELSE /\ trace' = trace \o (IF ~quiet
                                  THEN <<Stderr("Unexpected error", "", <<raised, "">>)>>
                                  ELSE <<>>)
            /\ exitcode' = <<1>>
    /\ pc' = "exited"
    /\ UNCHANGED <<inputs, files, i, results, outcomes, returned, raised>>

----------------------------------------------------------------------------
(* The specification.                                                      *)

Init ==
    /\ caller \in {"cli", "api"}
    /\ quiet \in BOOLEAN
    /\ verbose \in BOOLEAN
    /\ \/ /\ caller = "api"
          /\ args_files \in ListsUpTo(MaxFiles)
          /\ algorithm \in AlgorithmArgs
          /\ stdin_isatty = TRUE
          /\ stdin_lines = <<>>
       \/ /\ caller = "cli"
          /\ algorithm \in Algorithms
          /\ \/ /\ args_files \in ListsUpTo(MaxFiles) \ {<<>>}
                /\ stdin_isatty = TRUE
                /\ stdin_lines = <<>>
             \/ /\ args_files = <<>>
                /\ stdin_isatty \in BOOLEAN
                /\ stdin_lines \in StdinSamples
    /\ pc = "start"
    /\ files = <<>>
    /\ i = 1
    /\ results = <<>>
    /\ outcomes = <<>>
    /\ trace = <<>>
    /\ returned = <<>>
    /\ raised = ""
    /\ exitcode = <<>>

Next ==
    \/ CallProcessFiles
    \/ Main
    \/ ProcessFilesStep
    \/ ProcessFilesReturn
    \/ MainExit
    \/ Interrupt
    \/ MainExcept

Spec == Init /\ [][Next]_vars

----------------------------------------------------------------------------
(* Notions the properties are stated in.                                   *)

\* An existing readable regular file.
IsReadableFile(p) ==
    FileSystem[p].exists /\ FileSystem[p].is_file /\ FileSystem[p].readable

IsStdout(e) == e.stream = "stdout"
IsStderr(e) == e.stream = "stderr"
IsCall(e) == e.stream = "call"
IsOk(o) == o.kind = "ok"

ErrorNoticeKinds == {"Error processing", "Unexpected error processing"}

\* The paths of a list of (path, score) pairs, and of a list of records.
PairPaths(l) == [k \in 1..Len(l) |-> l[k][1]]
RecordPaths(l) == [k \in 1..Len(l) |-> l[k].path]

InUnitInterval(x) == x[2] > 0 /\ LessEq(Zero, x) /\ LessEq(x, One)

\* The run is inside, or past, the loop of process_files.
InBatch == pc \in {"process_files", "returned", "raised", "exited"}

\* C1: once process_files has returned, the returned list holds one entry
\* per input position that names an existing readable regular file (given a
\* recognised algorithm) and none for the others, in input order; so
\* [valid1, missing, valid2] gives 2 entries, valid1 first, and [] gives [].
C1_ResultIsSuccessfulSubsequence ==
    returned # <<>> =>
        /\ PairPaths(returned[1]) = RecordPaths(SelectSeq(outcomes, IsOk))
        /\ algorithm \in Algorithms =>
               PairPaths(returned[1]) = SelectSeq(files, IsReadableFile)
        /\ files = <<>> => returned[1] = <<>>

\* C2: no outcome of process_file leaves process_files: the only exception
\* that leaves it is the user's interruption; process_file has been called
\* exactly once for each position before the loop's, in input order; the
\* loop can always take its next step; and the list is returned only after
\* every position has been attempted.
C2_NeverFailsAsAWhole ==
    /\ raised \in {"", "KeyboardInterrupt"}
    /\ InBatch => /\ i \in 1..(Len(files) + 1)
                  /\ Len(outcomes) = i - 1
                  /\ RecordPaths(SelectSeq(trace, IsCall)) = SubSeq(files, 1, i - 1)
    /\ pc = "process_files" => ENABLED (ProcessFilesStep \/ ProcessFilesReturn)
    /\ returned # <<>> => /\ i = Len(files) + 1
                          /\ Len(returned[1]) <= Len(files)

\* C2's case: an api run that returned after a missing path, a directory and
\* a regular file were each attempted.
C2_Witness ==
    /\ returned # <<>>
    /\ files = <<"missing.txt", "dir", "small.txt">>
    /\ algorithm = "invalid"
    /\ outcomes[3].kind \notin {"ok", "FileNotFoundError", "PermissionError", "ValueError"}

\* C3: process_file returns a score in [0, 1] for every existing readable
\* regular file and recognised algorithm, and every score in the list of
\* process_files is in [0, 1].
C3_ScoreInUnitInterval ==
    /\ \A k \in 1..Len(outcomes) :
           IsReadableFile(outcomes[k].path) /\ algorithm \in Algorithms =>
               outcomes[k].kind = "ok" /\ InUnitInterval(outcomes[k].score)
    /\ \A k \in 1..Len(results) : InUnitInterval(results[k][2])

\* C4: for an existing readable regular file of n bytes, the size algorithm
\* returns min(1, n / 1024).
C4_SizeScore ==
    \A k \in 1..Len(outcomes) :
        IsReadableFile(outcomes[k].path) /\ algorithm = "size" =>
            LET n == FileSystem[outcomes[k].path].st_size
                x == outcomes[k].score
            IN  /\ outcomes[k].kind = "ok"
                /\ IF n >= 1024 THEN x = One ELSE x[1] * 1024 = n * x[2]

\* C5: for an existing readable regular file that is not valid UTF-8, lines
\* and words raise no decode error and return what size returns.
C5_BinaryFallsBackToSize ==
    \A k \in 1..Len(outcomes) :
        LET p == outcomes[k].path
        IN  IsReadableFile(p) /\ ~FileSystem[p].utf8 /\ algorithm \in {"lines", "words"} =>
                /\ outcomes[k].kind = "ok"
                /\ process_file(p, "size").kind = "ok"
                /\ outcomes[k].score = process_file(p, "size").score

\* C6: for an existing readable regular file and an unrecognised algorithm,
\* process_file raises ValueError and nothing else.
C6_UnknownAlgorithmIsValueError ==
    \A k \in 1..Len(outcomes) :
        IsReadableFile(outcomes[k].path) /\ algorithm \notin Algorithms =>
            outcomes[k].kind = "ValueError"

\* C7: whatever the algorithm, a path with no entry raises FileNotFoundError
\* and a path that is not a regular file raises ValueError, both without
\* reading the file.
C7_PathValidatedFirst ==
    \A k \in 1..Len(outcomes) :
        LET e == FileSystem[outcomes[k].path]
        IN  /\ ~e.exists =>
                outcomes[k].kind = "FileNotFoundError" /\ outcomes[k].io = <<>>
            /\ e.exists /\ ~e.is_file =>
                /\ outcomes[k].kind = "ValueError"
                /\ outcomes[k].msg = "Not a file"
                /\ outcomes[k].io = <<>>

\* C7's case: a missing path and a directory scored under an unrecognised
\* algorithm.
C7_Witness ==
    /\ algorithm = "invalid"
    /\ Len(outcomes) = 2
    /\ outcomes[1].path = "missing.txt"
    /\ outcomes[2].path = "dir"

\* C8: an uninterrupted front end exits 1 when no files were resolved; else
\* 0 exactly when (quiet and some result) or (not quiet and as many results
\* as files); so a non-quiet run over existing readable regular files exits
\* 0, and a run over one missing file exits 1.
C8_ExitCode ==
    exitcode # <<>> /\ raised = "" =>
        /\ exitcode[1] =
               IF files = <<>> THEN 1
               ELSE IF \/ quiet /\ results # <<>>
                       \/ ~quiet /\ Len(results) = Len(files)
                    THEN 0 ELSE 1
        /\ (~quiet /\ files # <<>> /\ \A k \in 1..Len(files) : IsReadableFile(files[k]))
               => exitcode[1] = 0
        /\ files = <<"missing.txt">> => exitcode[1] = 1

\* The list process_files owes for a list of paths: a function of the paths
\* and the algorithm alone.
RECURSIVE ScoresOf(_, _)
ScoresOf(fs, alg) ==
    IF fs = <<>> THEN <<>>
    ELSE LET r == process_file(Head(fs), alg)
         IN  (IF r.kind = "ok" THEN << <<Head(fs), r.score>> >> ELSE <<>>)
                 \o ScoresOf(Tail(fs), alg)

\* C9: in quiet mode nothing is written to either stream, whatever the
\* paths, the algorithm and verbose are, and the list returned is the one
\* the paths and the algorithm determine, as without quiet.
C9_QuietEmitsNothing ==
    quiet =>
        /\ \A k \in 1..Len(trace) : IsCall(trace[k])
        /\ returned # <<>> => returned[1] = ScoresOf(files, algorithm)

\* C9's case: a quiet, verbose run that returned after three paths failed,
\* one of them through the catch-all clause.
C9_Witness ==
    /\ quiet /\ verbose
    /\ returned # <<>>
    /\ files = <<"small.txt", "missing.txt", "dir">>
    /\ Len(SelectSeq(trace, IsCall)) = 3

\* The entries of the trace one position of the loop accounts for when
\* nothing is suppressed.
NoticesPerPosition == IF verbose THEN 3 ELSE 2

\* C10: in a non-quiet run every position attempted so far has, in input
\* order, its progress notice (when verbose), then its call of process_file,
\* then exactly one outcome notice: the result line on stdout with the score
\* in 3 decimals if the path was appended to the list, an error notice on
\* stderr otherwise.  The paths on stdout are the paths of the list.
C10_OneNoticePerPosition ==
    ~quiet /\ InBatch =>
        LET w == NoticesPerPosition
            n == Len(outcomes)
        IN  /\ Len(trace) >= w * n
            /\ \A k \in 1..n :
                   LET b == w * (k - 1)
                       e == trace[b + w]
                   IN  /\ verbose => trace[b + 1] = Stderr("Processing", files[k], <<>>)
                       /\ trace[b + w - 1] = Call(files[k])
                       /\ e.path = files[k]
                       /\ IF outcomes[k].kind = "ok"
                          THEN /\ e = Stdout("result", files[k], <<Format3(outcomes[k].score)>>)
                               /\ \E j \in 1..Len(results) : results[j][1] = files[k]
                          ELSE /\ IsStderr(e)
                               /\ e.kind \in ErrorNoticeKinds
            /\ \A k \in (w * n + 1)..Len(trace) :
                   /\ IsStderr(trace[k])
                   /\ trace[k].kind \notin ErrorNoticeKinds \cup {"Processing"}
            /\ PairPaths(results) = RecordPaths(SelectSeq(trace, IsStdout))
            /\ PairPaths(results) = RecordPaths(SelectSeq(outcomes, IsOk))

\* C10's case: a verbose, non-quiet run that returned after three paths, with
\* both kinds of error notice.
C10_Witness ==
    /\ ~quiet /\ verbose
    /\ returned # <<>>
    /\ files = <<"missing.txt", "small.txt", "dir">>
    /\ Len(trace) = 9
    /\ trace[6].kind = "Unexpected error processing"
    /\ trace[9].kind = "Error processing"

====
